---- MODULE Spec2Model ----
(***************************************************************************)
(* A model of bokeh.state.State (src/bokeh/state.py): the object that      *)
(* tracks the current document, the file output configuration, the         *)
(* notebook flag and the server connection / session.                      *)
(*                                                                         *)
(* Objects live in two heaps.  docs[i] is the content (set of models) of   *)
(* the Document object with identity i, conns[i] is the ClientConnection   *)
(* object with identity i, with the url it was opened for and the number   *)
(* of times close() was called on it, sessions is the set of ClientSession *)
(* objects created so far.  Every State method is one action:              *)
(* the class is synchronous and single-threaded.  Calls that raise are     *)
(* separate actions that leave behind whatever the method had already      *)
(* assigned when the exception left it.                                    *)
(***************************************************************************)
EXTENDS Naturals, Sequences, FiniteSets, TLC

VARIABLES document, file, notebook, connection, session,
          docs, conns, sessions, notice, last, since

vars == <<document, file, notebook, connection, session,
          docs, conns, sessions, notice, last, since>>

fields == <<document, file, notebook, connection, session>>

----------------------------------------------------------------------------
(* Bounds of the exploration.                                              *)

MaxDocs == 3

MaxConns == 2

MaxCalls == 2

----------------------------------------------------------------------------
(* Values.                                                                 *)

NoConn == 0

NoFile == [tag |-> "None"]

NoSession == [conn |-> NoConn, sessionid |-> "None", doc |-> 0]

NoArg == "None"

Models == {"glyph"}

Contents == SUBSET Models

EmptyDocument == {}

\* Argument lists the calls are tried with:
\* output_file(filename, title, autosave, mode, root_dir)
FileArgs ==
    { <<"out.html", "Bokeh Plot", FALSE, "inline", NoArg>>,
      <<"out.html", "T", TRUE, "absolute", "/r">>,
      <<"b.html", "Bokeh Plot", FALSE, "absolute", NoArg>>,
      <<"b.html", "T", TRUE, "absolute-dev", NoArg>> }

\* output_server(sessionid, url)
ServerArgs == { <<"s1", "http://x">> }

\* output_notebook(url, docname, session, name) with one of url, session, name
NotebookArgs ==
    { <<"http://x", NoArg, NoArg, NoArg>>,
      <<NoArg, "doc", "sess", NoArg>>,
      <<NoArg, NoArg, NoArg, "nm">> }

DEFAULT_SERVER_URL == "DEFAULT_SERVER_URL"

Times == {"Sun Nov  1 01:00:00 2026"}

OutputServerParams == {"sessionid", "url", "clear"}

Min(a, b) == IF a < b THEN a ELSE b

----------------------------------------------------------------------------
(* Collaborators (bokeh.document, bokeh.resources, bokeh.client).          *)

\* Document(): a fresh empty document.
Document == EmptyDocument

\* Document.clear(): removes all content, identity unchanged.
DocumentClear(content) == EmptyDocument

\* Resources(mode=, root_dir=) raises when an absolute mode has no root_dir.
ResourcesRaises(mode, root_dir) ==
    mode \in {"absolute", "absolute-dev"} /\ root_dir = NoArg

Resources(mode, root_dir) == [mode |-> mode, root_dir |-> root_dir]

\* ClientConnection(url=url): a new, open connection object.
ClientConnection(url) == [url |-> url, closes |-> 0]

\* connection.close()
ConnectionClose(c) == [c EXCEPT !.closes = @ + 1]

\* ClientSession(connection, sessionid): a session bound to the connection,
\* whose document is the object d.
ClientSession(c, sessionid, d) == [conn |-> c, sessionid |-> sessionid, doc |-> d]

----------------------------------------------------------------------------
(* Pieces of the methods of State.                                         *)

\* Variant: the argument is ignored and the current document stays.
ResetDocument_keep(doc) == document

\* _reset_with_doc: self._document = doc
ResetDocument(doc) == doc

\* _reset_with_doc: self._file = None
ResetFile == NoFile

\* Variant: the notebook flag is not reset.
ResetNotebook_keep == notebook

\* _reset_with_doc: self._notebook = False
ResetNotebook == FALSE

\* Variant: the held connection is dropped without close().
CloseHeld_skip(cs, c) == cs

\* _reset_with_doc: if self._connection is not None: self._connection.close()
CloseHeld(cs, c) ==
    IF c # NoConn THEN [cs EXCEPT ![c] = ConnectionClose(@)] ELSE cs

\* Variant: the closed connection stays in the field.
ResetConnection_keep == connection

\* _reset_with_doc: self._connection = None
ResetConnection == NoConn

\* _reset_with_doc: self._session = None
ResetSession == NoSession

\* Variant: a file config that is already set is updated, not replaced.
FileDict_update(filename, title, autosave, mode, root_dir) ==
    IF file # NoFile
    THEN [file EXCEPT !.filename = filename]
    ELSE [filename  |-> filename,
          resources |-> Resources(mode, root_dir),
          autosave  |-> autosave,
          title     |-> title]

\* output_file: the dict assigned to self._file
FileDict(filename, title, autosave, mode, root_dir) ==
    [filename  |-> filename,
     resources |-> Resources(mode, root_dir),
     autosave  |-> autosave,
     title     |-> title]

\* output_notebook: if session or url or name
WantsServer(url, sess, name) == sess # NoArg \/ url # NoArg \/ name # NoArg

\* output_notebook: docname = "IPython Session at %s" % time.ctime()
SynthDocname(docname, t) ==
    IF docname = NoArg THEN "IPython Session at " \o t ELSE docname

\* A call with keyword arguments kw binds iff the callee declares them all.
CallBinds(kw, params) == kw \subseteq params

\* output_notebook: the keywords of its nested call
\* self.output_server(docname, url=url, session=session, name=name)
NestedKeywords == {"url", "session", "name"}

\* output_server: if url == "default": url = DEFAULT_SERVER_URL
ResolveUrl(url) == IF url = "default" THEN DEFAULT_SERVER_URL ELSE url

\* Variant: clear is ignored.
ClearIf_never(clear, content) == content

\* Variant: the document is cleared whatever clear is.
ClearIf_always(clear, content) == DocumentClear(content)

\* output_server: if clear: self._document.clear()
ClearIf(clear, content) == IF clear THEN DocumentClear(content) ELSE content

----------------------------------------------------------------------------
(* History: what the last call was and what it did.                        *)

OpenConns(cs) == {i \in 1..Len(cs) : cs[i].closes = 0}

Closed(cs, cs2) == {i \in 1..Len(cs) : cs2[i].closes > cs[i].closes}

Record(op, ok, sid, arg, clear, pre, cs2) ==
    [op       |-> op,
     ok       |-> ok,
     sid      |-> sid,
     arg      |-> arg,
     clear    |-> clear,
     pre      |-> pre,
     fargs    |-> <<>>,
     hadConn  |-> connection,
     hadFile  |-> file # NoFile,
     hadNb    |-> notebook,
     closed   |-> Closed(conns, cs2),
     opened   |-> (1..Len(cs2)) \ (1..Len(conns))]

\* Calls since the last reset: the number of output_server calls, the
\* connections they opened, and whether output_document was called.
NoCalls == [server |-> 0, opened |-> {}, doc |-> 0]

\* The sessions bound since the last reset.
BoundSince == {s \in sessions : s.conn \in since.opened}

----------------------------------------------------------------------------
(* The state after State(): _connection = None, then reset().              *)

Init ==
    /\ docs = <<Document>>
    /\ document = 1
    /\ file = NoFile
    /\ notebook = FALSE
    /\ connection = NoConn
    /\ session = NoSession
    /\ conns = <<>>
    /\ sessions = {}
    /\ notice = FALSE
    /\ last = [op |-> "__init__", ok |-> TRUE, sid |-> NoArg, arg |-> 0,
               clear |-> FALSE, fargs |-> <<>>,
               pre |-> EmptyDocument, hadConn |-> NoConn, hadFile |-> FALSE,
               hadNb |-> FALSE, closed |-> {}, opened |-> {}]
    /\ since = NoCalls

----------------------------------------------------------------------------
(* The methods.                                                            *)

reset_with_doc(doc) ==
    /\ document' = ResetDocument(doc)
    /\ file' = ResetFile
    /\ notebook' = ResetNotebook
    /\ conns' = CloseHeld(conns, connection)
    /\ connection' = ResetConnection
    /\ session' = ResetSession
    /\ sessions' = sessions
    /\ notice' = FALSE

\* Variant: reset empties the current document instead of making a new one.
reset_in_place ==
    /\ docs' = [docs EXCEPT ![document] = DocumentClear(@)]
    /\ reset_with_doc(document)
    /\ last' = Record("reset", TRUE, NoArg, 0, FALSE, EmptyDocument, conns')
    /\ since' = NoCalls

reset ==
    /\ Len(docs) < MaxDocs
    /\ docs' = Append(docs, Document)
    /\ reset_with_doc(Len(docs) + 1)
    /\ last' = Record("reset", TRUE, NoArg, 0, FALSE, EmptyDocument, conns')
    /\ since' = NoCalls

\* output_document(doc) with a document object that already exists
output_document(d) ==
    /\ d \in 1..Len(docs)
    /\ docs' = docs
    /\ reset_with_doc(d)
    /\ last' = Record("output_document", TRUE, NoArg, d, FALSE, docs[d], conns')
    /\ since' = [since EXCEPT !.doc = 1]

\* output_document(doc) with a document the caller has just built
output_document_new(content) ==
    /\ Len(docs) < MaxDocs
    /\ docs' = Append(docs, content)
    /\ reset_with_doc(Len(docs) + 1)
    /\ last' = Record("output_document", TRUE, NoArg, Len(docs) + 1, FALSE, content, conns')
    /\ since' = [since EXCEPT !.doc = 1]

\* Variant: output_file deactivates the other modes before it sets the file.
output_file_after_reset(filename, title, autosave, mode, root_dir, isfile) ==
    /\ ~ResourcesRaises(mode, root_dir)
    /\ file' = FileDict(filename, title, autosave, mode, root_dir)
    /\ notice' = isfile
    /\ notebook' = FALSE
    /\ conns' = CloseHeld(conns, connection)
    /\ connection' = NoConn
    /\ session' = NoSession
    /\ UNCHANGED <<document, docs, sessions, since>>
    /\ last' = [Record("output_file", TRUE, NoArg, 0, FALSE, EmptyDocument, conns')
                    EXCEPT !.fargs = <<filename, title, autosave, mode, root_dir>>]

output_file(filename, title, autosave, mode, root_dir, isfile) ==
    /\ ~ResourcesRaises(mode, root_dir)
    /\ file' = FileDict(filename, title, autosave, mode, root_dir)
    /\ notice' = isfile
    /\ UNCHANGED <<document, notebook, connection, session, docs, conns,
                   sessions, since>>
    /\ last' = [Record("output_file", TRUE, NoArg, 0, FALSE, EmptyDocument, conns)
                    EXCEPT !.fargs = <<filename, title, autosave, mode, root_dir>>]

\* Variant: self._file is set to None before the dict is built.
output_file_raises_clears(filename, title, autosave, mode, root_dir) ==
    /\ ResourcesRaises(mode, root_dir)
    /\ file' = NoFile
    /\ notice' = FALSE
    /\ UNCHANGED <<document, notebook, connection, session, docs, conns,
                   sessions, since>>
    /\ last' = [Record("output_file", FALSE, NoArg, 0, FALSE, EmptyDocument, conns)
                    EXCEPT !.fargs = <<filename, title, autosave, mode, root_dir>>]

\* Resources(...) raises inside the dict display: nothing is assigned
output_file_raises(filename, title, autosave, mode, root_dir) ==
    /\ ResourcesRaises(mode, root_dir)
    /\ notice' = FALSE
    /\ UNCHANGED <<document, file, notebook, connection, session, docs, conns,
                   sessions, since>>
    /\ last' = [Record("output_file", FALSE, NoArg, 0, FALSE, EmptyDocument, conns)
                    EXCEPT !.fargs = <<filename, title, autosave, mode, root_dir>>]

\* ClientConnection(url=url) raises: nothing is assigned
output_server_open_raises(sessionid, url, clear) ==
    /\ notice' = FALSE
    /\ UNCHANGED <<document, file, notebook, connection, session, docs, conns,
                   sessions>>
    /\ last' = Record("output_server", FALSE, sessionid, 0, clear, EmptyDocument, conns)
    /\ since' = [since EXCEPT !.server = Min(@ + 1, MaxCalls)]

\* ClientSession(self._connection, sessionid) raises: self._connection is
\* already the new connection
output_server_bind_raises(sessionid, url, clear) ==
    /\ Len(conns) < MaxConns
    /\ conns' = Append(conns, ClientConnection(ResolveUrl(url)))
    /\ connection' = Len(conns) + 1
    /\ notice' = FALSE
    /\ UNCHANGED <<document, file, notebook, session, docs, sessions>>
    /\ last' = Record("output_server", FALSE, sessionid, 0, clear, EmptyDocument, conns')
    /\ since' = [since EXCEPT !.server = Min(@ + 1, MaxCalls),
                              !.opened = @ \cup {Len(conns) + 1}]

\* Variant: the held connection is closed before the new one is stored.
output_server_closing_previous(sessionid, url, clear, content) ==
    /\ Len(conns) < MaxConns
    /\ Len(docs) < MaxDocs
    /\ conns' = Append(CloseHeld(conns, connection),
                       ClientConnection(ResolveUrl(url)))
    /\ connection' = Len(conns) + 1
    /\ session' = ClientSession(connection', sessionid, Len(docs) + 1)
    /\ sessions' = sessions \cup {session'}
    /\ document' = session'.doc
    /\ docs' = Append(docs, ClearIf(clear, content))
    /\ notice' = FALSE
    /\ UNCHANGED <<file, notebook>>
    /\ last' = Record("output_server", TRUE, sessionid, 0, clear, content, conns')
    /\ since' = [since EXCEPT !.server = Min(@ + 1, MaxCalls),
                              !.opened = @ \cup {Len(conns) + 1}]

\* Variant: output_server deactivates file and notebook output.
output_server_resetting(sessionid, url, clear, content) ==
    /\ Len(conns) < MaxConns
    /\ Len(docs) < MaxDocs
    /\ conns' = Append(conns, ClientConnection(ResolveUrl(url)))
    /\ connection' = Len(conns) + 1
    /\ session' = ClientSession(connection', sessionid, Len(docs) + 1)
    /\ sessions' = sessions \cup {session'}
    /\ document' = session'.doc
    /\ docs' = Append(docs, ClearIf(clear, content))
    /\ notice' = FALSE
    /\ file' = NoFile
    /\ notebook' = FALSE
    /\ last' = Record("output_server", TRUE, sessionid, 0, clear, content, conns')
    /\ since' = [since EXCEPT !.server = Min(@ + 1, MaxCalls),
                              !.opened = @ \cup {Len(conns) + 1}]

\* content is what the server-side session holds for sessionid
output_server(sessionid, url, clear, content) ==
    /\ Len(conns) < MaxConns
    /\ Len(docs) < MaxDocs
    /\ conns' = Append(conns, ClientConnection(ResolveUrl(url)))
    /\ connection' = Len(conns) + 1
    /\ session' = ClientSession(connection', sessionid, Len(docs) + 1)
    /\ sessions' = sessions \cup {session'}
    /\ document' = session'.doc
    /\ docs' = Append(docs, ClearIf(clear, content))
    /\ notice' = FALSE
    /\ UNCHANGED <<file, notebook>>
    /\ last' = Record("output_server", TRUE, sessionid, 0, clear, content, conns')
    /\ since' = [since EXCEPT !.server = Min(@ + 1, MaxCalls),
                              !.opened = @ \cup {Len(conns) + 1}]

\* Variant: output_notebook drops the file config.
output_notebook_plain_resets(docname) ==
    /\ ~WantsServer(NoArg, NoArg, NoArg)
    /\ notebook' = TRUE
    /\ file' = NoFile
    /\ notice' = FALSE
    /\ UNCHANGED <<document, connection, session, docs, conns, sessions, since>>
    /\ last' = Record("output_notebook", TRUE, NoArg, 0, FALSE, EmptyDocument, conns)

\* output_notebook() with none of url, session, name
output_notebook_plain(docname) ==
    /\ ~WantsServer(NoArg, NoArg, NoArg)
    /\ notebook' = TRUE
    /\ notice' = FALSE
    /\ UNCHANGED <<document, file, connection, session, docs, conns,
                   sessions, since>>
    /\ last' = Record("output_notebook", TRUE, NoArg, 0, FALSE, EmptyDocument, conns)

\* output_notebook(...) with url, session or name: the nested call passes
\* keywords output_server does not declare, and raises TypeError before the
\* body of output_server runs
output_notebook_server_raises(url, docname, sess, name, t) ==
    /\ WantsServer(url, sess, name)
    /\ ~CallBinds(NestedKeywords, OutputServerParams)
    /\ notebook' = TRUE
    /\ notice' = FALSE
    /\ UNCHANGED <<document, file, connection, session, docs, conns,
                   sessions, since>>
    /\ last' = Record("output_notebook_server", FALSE, SynthDocname(docname, t), 0, TRUE, EmptyDocument, conns)

----------------------------------------------------------------------------

Next ==
    \/ reset
    \/ \E d \in 1..MaxDocs : output_document(d)
    \/ \E c \in Contents : output_document_new(c)
    \/ \E a \in FileArgs, e \in BOOLEAN :
          output_file(a[1], a[2], a[3], a[4], a[5], e)
    \/ \E a \in FileArgs : output_file_raises(a[1], a[2], a[3], a[4], a[5])
    \/ \E a \in ServerArgs, cl \in BOOLEAN :
          output_server_open_raises(a[1], a[2], cl)
    \/ \E a \in ServerArgs, cl \in BOOLEAN :
          output_server_bind_raises(a[1], a[2], cl)
    \/ \E a \in ServerArgs, cl \in BOOLEAN, c \in Contents :
          output_server(a[1], a[2], cl, c)
    \/ \E dn \in {NoArg, "doc"} : output_notebook_plain(dn)
    \/ \E a \in NotebookArgs, t \in Times :
          output_notebook_server_raises(a[1], a[2], a[3], a[4], t)

Spec == Init /\ [][Next]_vars

\* The calls when ClientConnection, ClientSession and Resources never raise.
NextCollaboratorsSucceed ==
    \/ reset
    \/ \E d \in 1..MaxDocs : output_document(d)
    \/ \E c \in Contents : output_document_new(c)
    \/ \E a \in FileArgs, e \in BOOLEAN :
          output_file(a[1], a[2], a[3], a[4], a[5], e)
    \/ \E a \in ServerArgs, cl \in BOOLEAN, c \in Contents :
          output_server(a[1], a[2], cl, c)
    \/ \E dn \in {NoArg, "doc"} : output_notebook_plain(dn)
    \/ \E a \in NotebookArgs, t \in Times :
          output_notebook_server_raises(a[1], a[2], a[3], a[4], t)

SpecCollaboratorsSucceed == Init /\ [][NextCollaboratorsSucceed]_vars

----------------------------------------------------------------------------
(* Properties.                                                             *)

Absent == connection = NoConn /\ session = NoSession

\* C1: in the state right after reset() or output_document(d) returns, file
\* is None, notebook is False, and connection and session are absent.
C1_ResetDeactivatesModes ==
    last.op \in {"reset", "output_document"} =>
        file = NoFile /\ notebook = FALSE /\ Absent

C1_Witness ==
    /\ last.op = "reset"
    /\ last.hadConn # NoConn /\ last.hadFile /\ last.hadNb
    /\ file = NoFile /\ ~notebook /\ Absent

\* C2: every connection that has been opened and not yet closed is the one
\* held in the connection field.
C2_NoLeakedConnection == OpenConns(conns) \subseteq {connection}

\* C3: when output_server raises, every field of State has the value it had
\* before the call.
C3_FailedServerLeavesFields ==
    [][(last'.op = "output_server" /\ ~last'.ok) => UNCHANGED fields]_vars

\* C4: output_notebook with a session, a url or a name completes and leaves
\* notebook True and an active connection and session, the session bound
\* under the given or synthesized docname.
C4_NotebookServerCompletes ==
    last.op = "output_notebook_server" =>
        /\ last.ok
        /\ notebook
        /\ connection # NoConn
        /\ session # NoSession
        /\ session.conn = connection
        /\ session.sessionid = last.sid

\* C5: a session is present iff a connection is present, and the session
\* is bound to the held connection.
C5_SessionIffConnection ==
    /\ (session # NoSession) <=> (connection # NoConn)
    /\ connection # NoConn => session.conn = connection

InitialState ==
    /\ docs[document] = EmptyDocument
    /\ file = NoFile
    /\ notebook = FALSE
    /\ Absent

\* C6 as stated: a reset that follows a single output_server call since the
\* previous reset (a call that returned) closes exactly one connection, the
\* one that call opened.
C6_SingleServerCallThenReset ==
    [][(last'.op = "reset" /\ since.server = 1 /\ Cardinality(BoundSince) = 1) =>
           Closed(conns, conns') = since.opened]_vars

\* C6 amended: reset() calls close() once on the connection held at the
\* call and on no other, leaves the initial state with a new document, and,
\* when a single output_server call that opened a connection and no
\* output_document call happened since the previous reset, the connection it
\* closes is the one that call opened.
C6_ResetClosesHeld ==
    [][last'.op = "reset" =>
           /\ Len(conns') = Len(conns)
           /\ \A i \in 1..Len(conns) :
                  conns'[i].closes =
                      conns[i].closes + (IF i = connection THEN 1 ELSE 0)
           /\ connection # NoConn => conns'[connection].closes = 1
           /\ (since.server = 1 /\ since.opened # {} /\ since.doc = 0) =>
                  /\ Closed(conns, conns') = since.opened
                  /\ Cardinality(since.opened) = 1
           /\ InitialState'
           /\ document' \notin 1..Len(docs)]_vars

C6_Witness ==
    /\ last.op = "reset"
    /\ last.hadConn # NoConn
    /\ last.hadFile
    /\ last.closed = {last.hadConn}
    /\ conns[last.hadConn].closes = 1
    /\ InitialState

\* C7: a successful output_server(sessionid, url, clear=True) leaves document
\* the document of the new session, bound to the newly opened connection
\* under sessionid, and that document is empty whatever it held before.
C7_ServerClearTrue ==
    (last.op = "output_server" /\ last.ok /\ last.clear) =>
        /\ session # NoSession
        /\ document = session.doc
        /\ session.conn = connection
        /\ last.opened = {connection}
        /\ conns[connection].closes = 0
        /\ session.sessionid = last.sid
        /\ docs[document] = EmptyDocument

C7_Witness ==
    /\ last.op = "output_server" /\ last.ok /\ last.clear
    /\ last.pre # EmptyDocument
    /\ docs[document] = EmptyDocument
    /\ document = session.doc

\* C8: a successful output_server(sessionid, url, clear=False) leaves
\* document the document of the new session with the content that document
\* held before the call.
C8_ServerClearFalse ==
    (last.op = "output_server" /\ last.ok /\ ~last.clear) =>
        /\ session # NoSession
        /\ document = session.doc
        /\ session.conn = connection
        /\ docs[document] = last.pre

C8_Witness ==
    /\ last.op = "output_server" /\ last.ok /\ ~last.clear
    /\ last.pre # EmptyDocument
    /\ docs[document] = last.pre
    /\ document = session.doc

\* C9: output_document(d) makes document the object d itself, with its
\* content untouched, and no file config, notebook flag, connection or
\* session survives the call.
C9_OutputDocumentIdentity ==
    last.op = "output_document" =>
        /\ document = last.arg
        /\ docs[document] = last.pre
        /\ file = NoFile
        /\ notebook = FALSE
        /\ Absent

C9_Witness ==
    /\ last.op = "output_document"
    /\ last.hadConn # NoConn /\ last.hadFile /\ last.hadNb
    /\ last.arg < Len(docs)
    /\ docs[last.arg] # EmptyDocument
    /\ document = last.arg

\* C10: output_file changes only the file field: document, notebook,
\* connection and session are as before, and no connection is opened or
\* closed.
C10_OutputFileFrame ==
    [][last'.op = "output_file" =>
           UNCHANGED <<document, notebook, connection, session, docs, conns>>]_vars

C10_Witness ==
    /\ last.op = "output_file" /\ last.ok
    /\ file # NoFile
    /\ last.hadNb /\ notebook
    /\ last.hadConn # NoConn /\ connection = last.hadConn
    /\ session # NoSession

\* C11: output_notebook() with no arguments sets notebook to True and
\* changes nothing else: file, document, connection and session are as
\* before the call.
C11_NotebookPlainFrame ==
    [][last'.op = "output_notebook" =>
           /\ last'.ok
           /\ notebook' = TRUE
           /\ UNCHANGED <<document, file, connection, session, docs, conns>>]_vars

C11_Witness ==
    /\ last.op = "output_notebook"
    /\ ~last.hadNb /\ notebook
    /\ last.hadFile /\ file # NoFile
    /\ connection # NoConn /\ session # NoSession

\* C12: output_server called while a connection is held stores the new
\* connection without closing the held one; a connection that is open and
\* no longer held is never closed by a later call; reset() closes at most
\* the connection held when it is called.
C12_SupersededNeverClosed ==
    [][/\ (last'.op = "output_server" /\ connection # NoConn
              /\ last'.opened # {}) =>
              /\ connection' \in last'.opened
              /\ connection' # connection
              /\ conns'[connection].closes = conns[connection].closes
       /\ \A i \in OpenConns(conns) \ {connection} : conns'[i].closes = 0
       /\ last'.op = "reset" => Closed(conns, conns') \subseteq {connection}]_vars

C12_Witness ==
    /\ last.op = "reset"
    /\ Len(conns) = 2
    /\ last.hadConn = 2
    /\ last.closed = {2}
    /\ conns[1].closes = 0
    /\ conns[2].closes = 1

\* C13: when output_notebook is called with a url, session or name and the
\* nested output_server call fails, every field of State, notebook
\* included, has the value it had before the call.
C13_FailedNotebookLeavesFields ==
    [][(last'.op = "output_notebook_server" /\ ~last'.ok) =>
           UNCHANGED fields]_vars

\* The record a call output_file(a[1], ..., a[5]) describes.
FileOf(a) ==
    [filename  |-> a[1],
     resources |-> [mode |-> a[4], root_dir |-> a[5]],
     autosave  |-> a[3],
     title     |-> a[2]]

\* C14: after a successful output_file call, file is the record built from
\* the arguments of that call alone, whatever file was before; repeating
\* the same call leaves the fields unchanged.
C14_FileLastWriterWins ==
    [][(last'.op = "output_file" /\ last'.ok) =>
           /\ file' = FileOf(last'.fargs)
           /\ (last.op = "output_file" /\ last.ok
                   /\ last.fargs = last'.fargs) => UNCHANGED fields]_vars

C14_Witness ==
    /\ last.op = "output_file" /\ last.ok
    /\ last.hadFile
    /\ last.fargs = <<"out.html", "T", TRUE, "absolute", "/r">>
    /\ file = FileOf(last.fargs)

\* C15: connection goes from held to absent only in reset() and
\* output_document(), from absent to held only in output_server (directly or
\* nested in output_notebook), and output_file and output_notebook() never
\* change whether a connection is held.
C15_ConnectionSlotTransitions ==
    [][/\ (connection # NoConn /\ connection' = NoConn) =>
              last'.op \in {"reset", "output_document"}
       /\ (connection = NoConn /\ connection' # NoConn) =>
              last'.op \in {"output_server", "output_notebook_server"}
       /\ last'.op \in {"output_file", "output_notebook"} =>
              ((connection' = NoConn) <=> (connection = NoConn))]_vars

C15_Witness ==
    /\ last.op = "output_document"
    /\ last.hadConn = 2
    /\ connection = NoConn
    /\ conns[1].closes = 1
    /\ conns[2].closes = 1

\* C16: a successful output_server leaves the file config and the notebook
\* flag as they were before the call.
C16_ServerKeepsFileAndNotebook ==
    [][(last'.op = "output_server" /\ last'.ok) =>
           UNCHANGED <<file, notebook>>]_vars

C16_Witness ==
    /\ last.op = "output_server" /\ last.ok
    /\ last.hadFile /\ file # NoFile
    /\ last.hadNb /\ notebook
    /\ session # NoSession

\* The sessions whose document is the object d.
SessionsOf(d) == {s \in sessions : s.doc = d}

\* C17: whenever a session is present, document is that session's document;
\* whenever document is the document of some session, that session's
\* connection is the held connection and is open.
C17_DocumentMatchesConnection ==
    /\ session # NoSession => document = session.doc
    /\ \A s \in SessionsOf(document) :
           /\ s.conn = connection
           /\ conns[s.conn].closes = 0

\* C18: the held connection has never been closed, close() is called at
\* most once on any connection, and a call that closes a connection leaves
\* the connection field empty.
C18_HeldOpenClosedOnce ==
    /\ connection # NoConn => conns[connection].closes = 0
    /\ \A i \in 1..Len(conns) : conns[i].closes <= 1
    /\ last.closed # {} => connection = NoConn

C18_Witness ==
    /\ last.op = "reset"
    /\ last.hadConn = NoConn
    /\ last.closed = {}
    /\ Len(conns) >= 1
    /\ conns[1].closes = 1

\* C19: reset() installs a new empty document, an object that did not exist
\* before the call, and leaves the earlier documents as they are; document
\* always refers to a document object.
C19_ResetInstallsNewDocument ==
    /\ [](document \in 1..Len(docs))
    /\ [][last'.op = "reset" =>
              /\ document' \notin 1..Len(docs)
              /\ docs'[document'] = EmptyDocument
              /\ \A i \in 1..Len(docs) : docs'[i] = docs[i]]_vars

C19_Witness ==
    /\ last.op = "reset"
    /\ last.hadConn # NoConn
    /\ sessions # {}
    /\ document = Len(docs)
    /\ SessionsOf(document) = {}
    /\ \E i \in 1..(Len(docs) - 1) : docs[i] # EmptyDocument

\* C20: an output_file call fails only for an absolute mode with no
\* root_dir, and then file and the other fields keep their values; a call
\* that finds a file at filename succeeds and sets the file config.
C20_OutputFileFailureKeepsFile ==
    [][last'.op = "output_file" =>
           /\ ~last'.ok =>
                  /\ last'.fargs[4] \in {"absolute", "absolute-dev"}
                  /\ last'.fargs[5] = NoArg
                  /\ UNCHANGED fields
           /\ notice' => (last'.ok /\ file' = FileOf(last'.fargs))]_vars

C20_Witness ==
    /\ last.op = "output_file"
    /\ ~last.ok
    /\ last.hadFile
    /\ file # NoFile

====
